---------------------------- MODULE Spec2Model ----------------------------
(***************************************************************************)
(* Model of app_download.py: the Xero invoice attachment downloader.       *)
(* One process run is a linear script (token, tenant, contact, invoice     *)
(* pages, ledger load, download loop); the log file and the downloaded     *)
(* files persist from one run to the next.                                 *)
(*                                                                         *)
(* Text is modelled character by character: a string is a sequence of      *)
(* one-character strings, so that split, strip, replace and the substring  *)
(* test of the ledger loaders do what Python does.                         *)
(***************************************************************************)
EXTENDS Integers, Sequences, FiniteSets, TLC

(***************************************************************************)
(* Bounds of the model.                                                    *)
(***************************************************************************)
\* Number of process runs started one after the other from the same directory.
MaxRuns == 2
\* Number of non-empty invoice pages the server answers before an empty one.
MaxPages == 2
\* Number of invoices on one page.
MaxPageLen == 1

(***************************************************************************)
(* Literal text of the program.                                            *)
(***************************************************************************)
ASCTIME ==
    <<"2", "0", "2", "5", "-", "0", "3", "-", "2", "0", " ", "1", "0", ":", "0", "0", ":", "0", "0", ",", "1", "2", "3">>
SEP_DASH ==
    <<" ", "-", " ">>
LVL_INFO ==
    <<"I", "N", "F", "O">>
LVL_ERROR ==
    <<"E", "R", "R", "O", "R">>
NEEDLE_PROCESSING ==
    <<"P", "r", "o", "c", "e", "s", "s", "i", "n", "g", " ", "i", "n", "v", "o", "i", "c", "e", ":">>
SEP_ID ==
    <<"I", "D", ":", " ">>
SEP_COMMA ==
    <<",">>
NEEDLE_DOWNLOADED ==
    <<"D", "o", "w", "n", "l", "o", "a", "d", "e", "d", " ", "a", "t", "t", "a", "c", "h", "m", "e", "n", "t", ":">>
SEP_DOWNLOADED ==
    <<"D", "o", "w", "n", "l", "o", "a", "d", "e", "d", " ", "a", "t", "t", "a", "c", "h", "m", "e", "n", "t", ":", " ">>
T_STARTING ==
    <<"S", "t", "a", "r", "t", "i", "n", "g", " ", "X", "e", "r", "o", " ", "i", "n", "v", "o", "i", "c", "e", " ", "a", "t", "t", "a", "c", "h", "m", "e", "n", "t", " ", "d", "o", "w", "n", "l", "o", "a", "d", "e", "r", ".", ".", ".">>
T_TOKEN_OK ==
    <<"O", "b", "t", "a", "i", "n", "e", "d", " ", "t", "o", "k", "e", "n", " ", "s", "u", "c", "c", "e", "s", "s", "f", "u", "l", "l", "y">>
T_TOKEN_FAIL ==
    <<"F", "a", "i", "l", "e", "d", " ", "t", "o", " ", "f", "e", "t", "c", "h", " ", "t", "o", "k", "e", "n", ":", " ">>
T_TENANT_OK ==
    <<"U", "s", "i", "n", "g", " ", "t", "e", "n", "a", "n", "t", " ", "I", "D", ":", " ">>
T_TENANT_NONE ==
    <<"N", "o", " ", "t", "e", "n", "a", "n", "t", " ", "f", "o", "u", "n", "d", " ", "i", "n", " ", "c", "o", "n", "n", "e", "c", "t", "i", "o", "n", "s">>
T_TENANT_FAIL ==
    <<"F", "a", "i", "l", "e", "d", " ", "t", "o", " ", "f", "e", "t", "c", "h", " ", "t", "e", "n", "a", "n", "t", " ", "I", "D", ":", " ">>
T_CONTACT_FOUND ==
    <<"F", "o", "u", "n", "d", " ", "'">>
T_CONTACT_WITH ==
    <<"'", " ", "w", "i", "t", "h", " ", "C", "o", "n", "t", "a", "c", "t", "I", "D", ":", " ">>
T_CONTACT_NONE ==
    <<"N", "o", " ", "c", "o", "n", "t", "a", "c", "t", " ", "f", "o", "u", "n", "d", " ", "w", "i", "t", "h", " ", "n", "a", "m", "e", " ", "'">>
T_QUOTE ==
    <<"'">>
T_CONTACT_FAIL ==
    <<"F", "a", "i", "l", "e", "d", " ", "t", "o", " ", "f", "e", "t", "c", "h", " ", "c", "o", "n", "t", "a", "c", "t", " ", "d", "e", "t", "a", "i", "l", "s", ":", " ">>
T_PAGE ==
    <<"F", "e", "t", "c", "h", "e", "d", " ", "p", "a", "g", "e", " ">>
T_COLON ==
    <<":", " ">>
T_PAGE_MID ==
    <<" ", "i", "n", "v", "o", "i", "c", "e", "s", " ", "(", "t", "o", "t", "a", "l", " ", "s", "o", " ", "f", "a", "r", ":", " ">>
T_CLOSE ==
    <<")">>
T_INVOICES_FAIL ==
    <<"F", "a", "i", "l", "e", "d", " ", "t", "o", " ", "f", "e", "t", "c", "h", " ", "i", "n", "v", "o", "i", "c", "e", "s", ":", " ">>
T_FOUND ==
    <<"F", "o", "u", "n", "d", " ">>
T_FOUND_MID ==
    <<" ", "i", "n", "v", "o", "i", "c", "e", "s", " ", "f", "o", "r", " ", "'">>
T_FROM ==
    <<"'", " ", "f", "r", "o", "m", " ">>
T_TO ==
    <<" ", "t", "o", " ">>
T_TODAY ==
    <<"2", "0", "2", "5", "-", "0", "3", "-", "2", "0">>
T_PROCESSING ==
    <<"P", "r", "o", "c", "e", "s", "s", "i", "n", "g", " ", "i", "n", "v", "o", "i", "c", "e", ":", " ">>
T_OPEN_ID ==
    <<" ", "(", "I", "D", ":", " ">>
T_DATE ==
    <<",", " ", "D", "a", "t", "e", ":", " ">>
T_SKIPPED_INV_AS_PROCESSING ==
    <<"P", "r", "o", "c", "e", "s", "s", "i", "n", "g", " ", "i", "n", "v", "o", "i", "c", "e", ":", " ">>
T_SKIPPED_INV ==
    <<"S", "k", "i", "p", "p", "e", "d", " ", "i", "n", "v", "o", "i", "c", "e", ":", " ">>
T_ALREADY_PROCESSED ==
    <<")", " ", "-", " ", "a", "l", "r", "e", "a", "d", "y", " ", "p", "r", "o", "c", "e", "s", "s", "e", "d">>
T_FOUND_ATT ==
    <<"F", "o", "u", "n", "d", " ", "a", "t", "t", "a", "c", "h", "m", "e", "n", "t", ":", " ">>
T_SKIPPED ==
    <<"S", "k", "i", "p", "p", "e", "d", " ">>
T_ALREADY_DOWNLOADED ==
    <<" ", "-", " ", "a", "l", "r", "e", "a", "d", "y", " ", "d", "o", "w", "n", "l", "o", "a", "d", "e", "d">>
T_DOWNLOADED ==
    <<"D", "o", "w", "n", "l", "o", "a", "d", "e", "d", " ", "a", "t", "t", "a", "c", "h", "m", "e", "n", "t", ":", " ">>
T_DOWNLOAD_FAIL ==
    <<"F", "a", "i", "l", "e", "d", " ", "t", "o", " ", "d", "o", "w", "n", "l", "o", "a", "d", " ">>
T_NO_ATT ==
    <<"N", "o", " ", "a", "t", "t", "a", "c", "h", "m", "e", "n", "t", "s", " ", "f", "o", "u", "n", "d", " ", "f", "o", "r", " ", "i", "n", "v", "o", "i", "c", "e", " ">>
T_ATT_FAIL ==
    <<"F", "a", "i", "l", "e", "d", " ", "t", "o", " ", "f", "e", "t", "c", "h", " ", "a", "t", "t", "a", "c", "h", "m", "e", "n", "t", "s", " ", "f", "o", "r", " ">>
T_PROCESSED ==
    <<"P", "r", "o", "c", "e", "s", "s", "e", "d", " ">>
T_NEW_INVOICES ==
    <<" ", "n", "e", "w", " ", "i", "n", "v", "o", "i", "c", "e", "s", ".">>
T_ERROR ==
    <<"E", "r", "r", "o", "r", " ", "o", "c", "c", "u", "r", "r", "e", "d", ":", " ">>
T_COMPLETED ==
    <<"D", "o", "w", "n", "l", "o", "a", "d", " ", "p", "r", "o", "c", "e", "s", "s", " ", "c", "o", "m", "p", "l", "e", "t", "e", "d", ".">>

(***************************************************************************)
(* Python string operations on character sequences.                        *)
(***************************************************************************)
\* str.find(sub, from): the first index >= from where sub occurs, 0 if none.
Find(s, sub, from) ==
    LET hits == {i \in from..(Len(s) + 1 - Len(sub)) :
                    \A j \in 1..Len(sub) : s[i + j - 1] = sub[j]}
    IN  IF hits = {} THEN 0
        ELSE CHOOSE i \in hits : \A h \in hits : i <= h

\* `sub in s`
Contains(s, sub) == Find(s, sub, 1) # 0

\* s.split(sep) for a non-empty separator: the pieces between the
\* non-overlapping occurrences of sep, found left to right.
RECURSIVE Split(_, _)
Split(s, sep) ==
    LET k == Find(s, sep, 1)
    IN  IF k = 0 THEN <<s>>
        ELSE <<SubSeq(s, 1, k - 1)>> \o Split(SubSeq(s, k + Len(sep), Len(s)), sep)

Whitespace == {" ", "\t", "\n", "\r"}

RECURSIVE LStrip(_)
LStrip(s) ==
    IF s # <<>> /\ Head(s) \in Whitespace THEN LStrip(Tail(s)) ELSE s

RECURSIVE RStrip(_)
RStrip(s) ==
    IF s # <<>> /\ s[Len(s)] \in Whitespace THEN RStrip(SubSeq(s, 1, Len(s) - 1)) ELSE s

\* s.strip()
Strip(s) == RStrip(LStrip(s))

\* s.replace(old, new) for one-character old and new.
Replace(s, old, new) == [k \in 1..Len(s) |-> IF s[k] = old THEN new ELSE s[k]]

\* Iterating over a text file: its lines, each with its line end.
RECURSIVE SplitLines(_)
SplitLines(text) ==
    LET k == Find(text, <<"\n">>, 1)
    IN  IF text = <<>> THEN <<>>
        ELSE IF k = 0 THEN <<text>>
        ELSE <<SubSeq(text, 1, k)>> \o SplitLines(SubSeq(text, k + 1, Len(text)))

DigitChars == <<"0", "1", "2", "3", "4", "5", "6", "7", "8", "9">>

\* str(n) of a natural number, as the f-strings format it.
RECURSIVE IntStr(_)
IntStr(n) ==
    IF n < 10 THEN <<DigitChars[n + 1]>>
    ELSE IntStr(n \div 10) \o <<DigitChars[(n % 10) + 1]>>

\* The elements of a sequence.
Range(s) == {s[k] : k \in 1..Len(s)}

\* The concatenation of a sequence of sequences.
RECURSIVE Concat(_)
Concat(ss) == IF ss = <<>> THEN <<>> ELSE Head(ss) \o Concat(Tail(ss))

(***************************************************************************)
(* Configuration and the server's data.                                    *)
(***************************************************************************)
SUPPLIER_NAME == <<"S">>
START_DATE == <<"2", "0", "1", "9", "-", "0", "7", "-", "0", "5">>

\* The body of an error response and the text of a caught exception.
RESP_TEXT == <<"e", "r", "r">>
ERR_TEXT == <<"e", "x", "c">>

TENANT_ID == <<"t", "e", "n">>
CONTACT_ID == <<"c", "1">>

\* Invoices the server may list.  INV_A has two attachments whose names
\* differ only in a path separator; INV_X has a number that contains "ID: ",
\* an ID with a comma and a leading blank, and no attachment; INV_S has a
\* number with a path separator.
INV_A == [InvoiceID |-> <<"a">>, InvoiceNumber |-> <<"N">>, DateString |-> <<"D">>]
INV_X == [InvoiceID |-> <<" ", "x", ",", "y">>,
          InvoiceNumber |-> <<"I", "D", ":", " ", "z">>, DateString |-> <<"D">>]
INV_S == [InvoiceID |-> <<"s">>, InvoiceNumber |-> <<"S", "/", "1">>, DateString |-> <<"D">>]
Invoices == {INV_A, INV_X, INV_S}

FILE_PQ == <<"p", "/", "q">>
FILE_P_Q == <<"p", "_", "q">>
FILE_F == <<"f">>

\* The 'Attachments' list the server holds for an invoice.
AttachmentsOf(inv_id) ==
    CASE inv_id = INV_A.InvoiceID -> <<FILE_PQ, FILE_P_Q>>
      [] inv_id = INV_X.InvoiceID -> <<>>
      [] inv_id = INV_S.InvoiceID -> <<FILE_F>>

\* HTTP status codes a request is answered with.
STATUS_OK == 200
STATUS_ERROR == 500
Statuses == {STATUS_OK, STATUS_ERROR}

\* The non-empty pages the invoice endpoint may answer with.
RECURSIVE SeqsUpTo(_, _)
SeqsUpTo(S, n) ==
    IF n = 0 THEN {<<>>}
    ELSE LET shorter == SeqsUpTo(S, n - 1)
         IN  shorter \cup {Append(q, e) : q \in shorter, e \in S}

PageChoices == SeqsUpTo(Invoices, MaxPageLen)

(***************************************************************************)
(* The log: one record per logger call, and the text the handler's format  *)
(* '%(asctime)s - %(levelname)s - %(message)s' writes for it.              *)
(***************************************************************************)
Rec(kind, strs, nums) == [k |-> kind, s |-> strs, n |-> nums]

ErrorKinds == {"token_fail", "tenant_none", "tenant_fail", "contact_none",
               "contact_fail", "invoices_fail", "download_fail",
               "attachments_fail", "error"}

LevelName(r) == IF r.k \in ErrorKinds THEN LVL_ERROR ELSE LVL_INFO

StatusText(r) == IntStr(r.n[1]) \o SEP_DASH \o RESP_TEXT

\* The message of a record: the f-string of the logger call.
Message(r) ==
    CASE r.k = "starting" -> T_STARTING
      [] r.k = "token_ok" -> T_TOKEN_OK
      [] r.k = "token_fail" -> T_TOKEN_FAIL \o StatusText(r)
      [] r.k = "tenant_ok" -> T_TENANT_OK \o r.s[1]
      [] r.k = "tenant_none" -> T_TENANT_NONE
      [] r.k = "tenant_fail" -> T_TENANT_FAIL \o StatusText(r)
      [] r.k = "contact_found" ->
            T_CONTACT_FOUND \o r.s[1] \o T_CONTACT_WITH \o r.s[2]
      [] r.k = "contact_none" -> T_CONTACT_NONE \o r.s[1] \o T_QUOTE
      [] r.k = "contact_fail" -> T_CONTACT_FAIL \o StatusText(r)
      [] r.k = "page" ->
            T_PAGE \o IntStr(r.n[1]) \o T_COLON \o IntStr(r.n[2])
                   \o T_PAGE_MID \o IntStr(r.n[3]) \o T_CLOSE
      [] r.k = "invoices_fail" -> T_INVOICES_FAIL \o StatusText(r)
      [] r.k = "found_invoices" ->
            T_FOUND \o IntStr(r.n[1]) \o T_FOUND_MID \o r.s[1] \o T_FROM
                    \o r.s[2] \o T_TO \o T_TODAY
      [] r.k = "processing" ->
            T_PROCESSING \o r.s[1] \o T_OPEN_ID \o r.s[2] \o T_DATE
                         \o r.s[3] \o T_CLOSE
      [] r.k = "skipped_invoice" ->
            T_SKIPPED_INV \o r.s[1] \o T_OPEN_ID \o r.s[2] \o T_ALREADY_PROCESSED
      [] r.k = "found_attachment" -> T_FOUND_ATT \o r.s[1]
      [] r.k = "skipped" -> T_SKIPPED \o r.s[1] \o T_ALREADY_DOWNLOADED
      [] r.k = "downloaded" -> T_DOWNLOADED \o r.s[1]
      [] r.k = "download_fail" ->
            T_DOWNLOAD_FAIL \o r.s[1] \o T_COLON \o StatusText(r)
      [] r.k = "no_attachments" -> T_NO_ATT \o r.s[1]
      [] r.k = "attachments_fail" ->
            T_ATT_FAIL \o r.s[1] \o T_COLON \o StatusText(r)
      [] r.k = "processed" -> T_PROCESSED \o IntStr(r.n[1]) \o T_NEW_INVOICES
      [] r.k = "error" -> T_ERROR \o r.s[1]
      [] r.k = "completed" -> T_COMPLETED

\* The text appended to the log file for a record.
FormatRecord(r) ==
    ASCTIME \o SEP_DASH \o LevelName(r) \o SEP_DASH \o Message(r) \o <<"\n">>

\* The text of a log file holding the given records, cut into the lines
\* that reading the file yields, one sequence of lines per record.
FileLines(records) == [k \in 1..Len(records) |-> SplitLines(FormatRecord(records[k]))]

(***************************************************************************)
(* The resumption ledger: the two loaders, applied to the file             *)
(* 'xero_download.log' of the current directory (no lines when the file    *)
(* does not exist).                                                        *)
(***************************************************************************)
\* What one line adds to the set `processed`.
ProcessedOfLine(line) ==
    IF Contains(line, NEEDLE_PROCESSING)
    THEN LET parts == Split(line, SEP_ID)
         IN  IF Len(parts) > 1
             THEN {Strip(Split(parts[2], SEP_COMMA)[1])}
             ELSE {}
    ELSE {}

\* What one line adds to the set `downloaded`.
DownloadedOfLine(line) ==
    IF Contains(line, NEEDLE_DOWNLOADED)
    THEN LET parts == Split(line, SEP_DOWNLOADED)
         IN  IF Len(parts) > 1 THEN {Strip(parts[2])} ELSE {}
    ELSE {}

load_processed_invoices(records) ==
    UNION {UNION {ProcessedOfLine(line) : line \in Range(FileLines(records)[k])} :
              k \in 1..Len(records)}

load_downloaded_attachments(records) ==
    UNION {UNION {DownloadedOfLine(line) : line \in Range(FileLines(records)[k])} :
              k \in 1..Len(records)}

\* safe_file_name and unique_file_name of download_invoice_attachment.
UniqueFileName(inv_num, file_name) ==
    inv_num \o <<"_">> \o Replace(Replace(file_name, "/", "_"), "\\", "_")

(***************************************************************************)
(* State.                                                                  *)
(***************************************************************************)
VARIABLES
    run,                      \* number of the current process run
    pc,                       \* position of the run in the script
    cwd,                      \* current working directory of the process
    logs,                     \* the file xero_download.log of each directory
    disk,                     \* attachment files of the supplier folder
    reqs,                     \* requests the run has issued, with their status
    writes,                   \* local files the run has opened for writing
    logStart,                 \* length of the log when the run began
    contact_id,               \* main's contact_id
    invoices,                 \* invoices of get_invoices_for_contact
    page,                     \* page of get_invoices_for_contact
    pageResps,                \* page lists the run was answered with
    processed_invoices,       \* main's processed_invoices
    downloaded_set,           \* main's downloaded_set
    new_invoices_processed,   \* main's counter
    counted,                  \* IDs of the invoices the counter counted
    idx,                      \* position of `for inv in invoices`
    attachments,              \* attachments of the current invoice
    aidx                      \* position of `for attachment in attachments`

vars == <<run, pc, cwd, logs, disk, reqs, writes, logStart, contact_id, invoices, page, pageResps,
          processed_invoices, downloaded_set, new_invoices_processed, counted,
          idx, attachments, aidx>>

\* Directories: where the process is started, and the supplier folder
\* invoice_attachments/<SUPPLIER_NAME> below it.
START_DIR == "start"
\* The directory change left out: the process stays where it was started.
supplier_folder_unchanged == START_DIR
supplier_folder == "invoice_attachments/S"
Dirs == {START_DIR, supplier_folder}

\* The log handler opens 'xero_download.log' when the module is loaded, in
\* the directory the process is started in, and keeps that file.
LOG_DIR == START_DIR

\* Local file names the download loop can produce.
LocalNames ==
    {UniqueFileName(inv.InvoiceNumber, f) :
        inv \in Invoices, f \in {FILE_PQ, FILE_P_Q, FILE_F}}

Running == {"token", "tenant", "contact", "pages", "load", "loop",
            "attachments", "download", "write"}
InLoop == {"loop", "attachments", "download", "write"}
Ended == {"done", "exit1", "killed"}

Request(kind, where, pg, inv_id, file_name, status) ==
    [kind |-> kind, where |-> where, page |-> pg, inv |-> inv_id,
     file |-> file_name, status |-> status]

\* logger.info / logger.error: the records appended to the handler's file.
Logged(records) == [logs EXCEPT ![LOG_DIR] = @ \o records]

\* State of a fresh process: module-level code has run.
Fresh ==
    /\ pc = "token"
    /\ cwd = START_DIR
    /\ reqs = <<>>
    /\ writes = <<>>
    /\ contact_id = <<>>
    /\ invoices = <<>>
    /\ page = 1
    /\ pageResps = <<>>
    /\ processed_invoices = {}
    /\ downloaded_set = {}
    /\ new_invoices_processed = 0
    /\ counted = {}
    /\ idx = 1
    /\ attachments = <<>>
    /\ aidx = 1

Init ==
    /\ run = 1
    /\ logs = [d \in Dirs |-> <<>>]
    /\ disk = [f \in LocalNames |-> "none"]
    /\ logStart = 0
    /\ Fresh

loopVars == <<processed_invoices, downloaded_set, new_invoices_processed,
              counted, idx, attachments, aidx>>
pageVars == <<invoices, page, pageResps>>
envVars == <<run, cwd, disk, writes, logStart>>

\* get_token, with the first lines of main.
GetToken ==
    /\ pc = "token"
    /\ \E st \in Statuses :
        /\ reqs' = Append(reqs, Request("token", <<>>, 0, <<>>, <<>>, st))
        /\ IF st = STATUS_OK
           THEN /\ logs' = Logged(<<Rec("starting", <<>>, <<>>),
                                    Rec("token_ok", <<>>, <<>>)>>)
                /\ pc' = "tenant"
           ELSE /\ logs' = Logged(<<Rec("starting", <<>>, <<>>),
                                    Rec("token_fail", <<>>, <<st>>)>>)
                /\ pc' = "exit1"
    /\ UNCHANGED envVars
    /\ UNCHANGED contact_id
    /\ UNCHANGED pageVars
    /\ UNCHANGED loopVars

get_tenant_id ==
    /\ pc = "tenant"
    /\ \E st \in Statuses, connections \in {<<>>, <<TENANT_ID>>} :
        /\ reqs' = Append(reqs, Request("connections", <<>>, 0, <<>>, <<>>, st))
        /\ IF st = STATUS_OK
           THEN IF connections # <<>>
                THEN /\ logs' = Logged(<<Rec("tenant_ok", <<connections[1]>>, <<>>)>>)
                     /\ pc' = "contact"
                ELSE /\ logs' = Logged(<<Rec("tenant_none", <<>>, <<>>)>>)
                     /\ pc' = "exit1"
           ELSE /\ logs' = Logged(<<Rec("tenant_fail", <<>>, <<st>>)>>)
                /\ pc' = "exit1"
    /\ UNCHANGED envVars
    /\ UNCHANGED contact_id
    /\ UNCHANGED pageVars
    /\ UNCHANGED loopVars

get_contact_id ==
    /\ pc = "contact"
    /\ \E st \in Statuses, contacts \in {<<>>, <<CONTACT_ID>>} :
        /\ reqs' = Append(reqs, Request("contacts", SUPPLIER_NAME, 0, <<>>, <<>>, st))
        /\ IF st = STATUS_OK
           THEN IF contacts # <<>>
                THEN /\ logs' = Logged(<<Rec("contact_found",
                                             <<SUPPLIER_NAME, contacts[1]>>, <<>>)>>)
                     /\ contact_id' = contacts[1]
                     /\ pc' = "pages"
                ELSE /\ logs' = Logged(<<Rec("contact_none", <<SUPPLIER_NAME>>, <<>>)>>)
                     /\ pc' = "exit1"
                     /\ UNCHANGED contact_id
           ELSE /\ logs' = Logged(<<Rec("contact_fail", <<>>, <<st>>)>>)
                /\ pc' = "exit1"
                /\ UNCHANGED contact_id
    /\ UNCHANGED envVars
    /\ UNCHANGED pageVars
    /\ UNCHANGED loopVars

\* invoices.extend(page_invoices)
ExtendInvoicesFront(invs, page_invoices) == page_invoices \o invs
ExtendInvoices(invs, page_invoices) == invs \o page_invoices

\* page += 1
NextPageSame(p) == p
NextPage(p) == p + 1

\* Where the script goes when an invoice page is answered with an error:
\* sys.exit(1).
InvoicesFailedRetry == "pages"
InvoicesFailedBreak == "load"
InvoicesFailed == "exit1"

\* The 'where' parameter of the invoice query.
InvoiceFilter == <<contact_id, START_DATE>>

\* One turn of the `while True` of get_invoices_for_contact.  The server
\* answers an empty page or an error once MaxPages pages were listed.
get_invoices_for_contact ==
    /\ pc = "pages"
    /\ \E st \in Statuses, page_invoices \in PageChoices :
        /\ page > MaxPages => (st # STATUS_OK \/ page_invoices = <<>>)
        /\ reqs' = Append(reqs, Request("invoices", InvoiceFilter, page, <<>>, <<>>, st))
        /\ IF st = STATUS_OK
           THEN /\ pageResps' = Append(pageResps, page_invoices)
                /\ IF page_invoices = <<>>
                   THEN /\ logs' = Logged(<<Rec("found_invoices",
                                                <<SUPPLIER_NAME, START_DATE>>,
                                                <<Len(invoices)>>)>>)
                        /\ pc' = "load"
                        /\ UNCHANGED <<invoices, page>>
                   ELSE /\ invoices' = ExtendInvoices(invoices, page_invoices)
                        /\ logs' = Logged(<<Rec("page", <<>>,
                                                <<page, Len(page_invoices),
                                                  Len(invoices')>>)>>)
                        /\ page' = NextPage(page)
                        /\ pc' = "pages"
           ELSE /\ logs' = Logged(<<Rec("invoices_fail", <<>>, <<st>>)>>)
                /\ pc' = InvoicesFailed
                /\ UNCHANGED pageVars
    /\ UNCHANGED envVars
    /\ UNCHANGED contact_id
    /\ UNCHANGED loopVars

\* main, from the change of directory to the start of the loop.
LoadLedgers ==
    /\ pc = "load"
    /\ cwd' = supplier_folder
    /\ processed_invoices' = load_processed_invoices(logs[cwd'])
    /\ downloaded_set' = load_downloaded_attachments(logs[cwd'])
    /\ new_invoices_processed' = 0
    /\ counted' = {}
    /\ idx' = 1
    /\ pc' = "loop"
    /\ UNCHANGED <<run, logs, disk, reqs, writes, logStart, contact_id, attachments,
                   aidx>>
    /\ UNCHANGED pageVars

\* The head of `for inv in invoices`: skip the invoice or announce it.
NextInvoice ==
    /\ pc = "loop"
    /\ idx <= Len(invoices)
    /\ LET inv == invoices[idx]
           inv_id == inv.InvoiceID
           inv_num == inv.InvoiceNumber
       IN  IF inv_id \in processed_invoices
           THEN /\ logs' = Logged(<<Rec("skipped_invoice", <<inv_num, inv_id>>, <<>>)>>)
                /\ idx' = idx + 1
                /\ pc' = "loop"
           ELSE /\ logs' = Logged(<<Rec("processing",
                                        <<inv_num, inv_id, inv.DateString>>, <<>>)>>)
                /\ idx' = idx
                /\ pc' = "attachments"
    /\ UNCHANGED <<processed_invoices, downloaded_set, new_invoices_processed,
                   counted, attachments, aidx>>
    /\ UNCHANGED <<reqs, contact_id>>
    /\ UNCHANGED envVars
    /\ UNCHANGED pageVars

\* The attachment list request of the current invoice.
FetchAttachments ==
    /\ pc = "attachments"
    /\ LET inv == invoices[idx]
           inv_id == inv.InvoiceID
           inv_num == inv.InvoiceNumber
       IN  \E st \in Statuses :
            /\ reqs' = Append(reqs, Request("attachments", <<>>, 0, inv_id, <<>>, st))
            /\ IF st = STATUS_OK
               THEN IF AttachmentsOf(inv_id) # <<>>
                    THEN /\ attachments' = AttachmentsOf(inv_id)
                         /\ aidx' = 1
                         /\ pc' = "download"
                         /\ UNCHANGED <<logs, idx, new_invoices_processed, counted>>
                    ELSE /\ logs' = Logged(<<Rec("no_attachments", <<inv_num>>, <<>>)>>)
                         /\ attachments' = <<>>
                         /\ new_invoices_processed' = new_invoices_processed + 1
                         /\ counted' = counted \cup {inv_id}
                         /\ idx' = idx + 1
                         /\ pc' = "loop"
                         /\ UNCHANGED aidx
               ELSE /\ logs' = Logged(<<Rec("attachments_fail", <<inv_num>>, <<st>>)>>)
                    /\ idx' = idx + 1
                    /\ pc' = "loop"
                    /\ UNCHANGED <<attachments, aidx, new_invoices_processed, counted>>
    /\ UNCHANGED <<processed_invoices, downloaded_set, contact_id>>
    /\ UNCHANGED envVars
    /\ UNCHANGED pageVars

\* The end of one turn of `for attachment in attachments`: the next
\* attachment, or the invoice is counted and the next invoice follows.
NextAttachment ==
    IF aidx < Len(attachments)
    THEN /\ aidx' = aidx + 1
         /\ pc' = "download"
         /\ UNCHANGED <<idx, new_invoices_processed, counted>>
    ELSE /\ aidx' = aidx
         /\ new_invoices_processed' = new_invoices_processed + 1
         /\ counted' = counted \cup {invoices[idx].InvoiceID}
         /\ idx' = idx + 1
         /\ pc' = "loop"

\* The status check of download_invoice_attachment: always true when the
\* check is left out.
DownloadOkAlways(st) == TRUE
DownloadOk(st) == st = STATUS_OK

\* download_invoice_attachment up to the open of the local file.
DownloadAttachment ==
    /\ pc = "download"
    /\ LET inv == invoices[idx]
           file_name == attachments[aidx]
           unique_file_name == UniqueFileName(inv.InvoiceNumber, file_name)
           found == Rec("found_attachment", <<file_name>>, <<>>)
       IN  IF unique_file_name \in downloaded_set
           THEN /\ logs' = Logged(<<found, Rec("skipped", <<unique_file_name>>, <<>>)>>)
                /\ NextAttachment
                /\ UNCHANGED <<reqs, disk, writes>>
           ELSE \E st \in Statuses :
                /\ reqs' = Append(reqs, Request("download", <<>>, 0, inv.InvoiceID,
                                                file_name, st))
                /\ IF DownloadOk(st)
                   THEN IF "/" \in Range(unique_file_name)
                        THEN \* open() raises: no such directory
                             /\ logs' = Logged(<<found, Rec("error", <<ERR_TEXT>>, <<>>)>>)
                             /\ pc' = "exit1"
                             /\ UNCHANGED <<disk, writes, aidx, idx,
                                            new_invoices_processed, counted>>
                        ELSE /\ logs' = Logged(<<found>>)
                             /\ disk' = [disk EXCEPT ![unique_file_name] = "partial"]
                             /\ writes' = Append(writes, unique_file_name)
                             /\ pc' = "write"
                             /\ UNCHANGED <<aidx, idx, new_invoices_processed, counted>>
                   ELSE /\ logs' = Logged(<<found,
                                            Rec("download_fail", <<file_name>>, <<st>>)>>)
                        /\ NextAttachment
                        /\ UNCHANGED <<disk, writes>>
    /\ UNCHANGED <<processed_invoices, downloaded_set, attachments, contact_id>>
    /\ UNCHANGED <<run, cwd, logStart>>
    /\ UNCHANGED pageVars

\* The write of the response content and the 'Downloaded attachment' line.
WriteAttachment ==
    /\ pc = "write"
    /\ LET unique_file_name ==
               UniqueFileName(invoices[idx].InvoiceNumber, attachments[aidx])
       IN  /\ disk' = [disk EXCEPT ![unique_file_name] = "full"]
           /\ logs' = Logged(<<Rec("downloaded", <<unique_file_name>>, <<>>)>>)
    /\ NextAttachment
    /\ UNCHANGED <<processed_invoices, downloaded_set, attachments, contact_id, reqs>>
    /\ UNCHANGED <<run, cwd, writes, logStart>>
    /\ UNCHANGED pageVars

\* The end of main and of the script.
Finish ==
    /\ pc = "loop"
    /\ idx > Len(invoices)
    /\ logs' = Logged(<<Rec("processed", <<>>, <<new_invoices_processed>>),
                        Rec("completed", <<>>, <<>>)>>)
    /\ pc' = "done"
    /\ UNCHANGED <<reqs, contact_id>>
    /\ UNCHANGED envVars
    /\ UNCHANGED pageVars
    /\ UNCHANGED loopVars

\* The process is killed while it runs.
Interrupt ==
    /\ pc \in Running
    /\ pc' = "killed"
    /\ UNCHANGED <<logs, reqs, contact_id>>
    /\ UNCHANGED envVars
    /\ UNCHANGED pageVars
    /\ UNCHANGED loopVars

\* The script is started again from the same directory.
StartRun ==
    /\ pc \in Ended
    /\ run < MaxRuns
    /\ run' = run + 1
    /\ logStart' = Len(logs[LOG_DIR])
    /\ pc' = "token"
    /\ cwd' = START_DIR
    /\ reqs' = <<>>
    /\ writes' = <<>>
    /\ contact_id' = <<>>
    /\ invoices' = <<>>
    /\ page' = 1
    /\ pageResps' = <<>>
    /\ processed_invoices' = {}
    /\ downloaded_set' = {}
    /\ new_invoices_processed' = 0
    /\ counted' = {}
    /\ idx' = 1
    /\ attachments' = <<>>
    /\ aidx' = 1
    /\ UNCHANGED <<logs, disk>>

Step ==
    \/ GetToken
    \/ get_tenant_id
    \/ get_contact_id
    \/ get_invoices_for_contact
    \/ LoadLedgers
    \/ NextInvoice
    \/ FetchAttachments
    \/ DownloadAttachment
    \/ WriteAttachment
    \/ Finish

Next ==
    \/ Step
    \/ Interrupt
    \/ StartRun

Spec == Init /\ [][Next]_vars

\* The script is one sequential process: once started it takes its next
\* step as long as it is not killed.  Kills and restarts are left free.
FairSpec == Spec /\ WF_vars(Step)

(***************************************************************************)
(* A start in a directory whose supplier folder may already hold a file    *)
(* 'xero_download.log': the log of two runs of the script that were        *)
(* started inside the supplier folder.  The first listed INV_B, an invoice *)
(* with the number of INV_A that the server lists no longer, and INV_X,    *)
(* which then had the attachment f, and downloaded their attachments; the  *)
(* second listed INV_S, whose download raised.  The attachment files went  *)
(* to the supplier folder of those runs.                                   *)
(***************************************************************************)
INV_B == [InvoiceID |-> <<"b">>, InvoiceNumber |-> <<"N">>, DateString |-> <<"D">>]

LEDGER_BXS ==
    <<Rec("starting", <<>>, <<>>),
      Rec("token_ok", <<>>, <<>>),
      Rec("tenant_ok", <<TENANT_ID>>, <<>>),
      Rec("contact_found", <<SUPPLIER_NAME, CONTACT_ID>>, <<>>),
      Rec("page", <<>>, <<1, 1, 1>>),
      Rec("page", <<>>, <<2, 1, 2>>),
      Rec("found_invoices", <<SUPPLIER_NAME, START_DATE>>, <<2>>),
      Rec("processing", <<INV_B.InvoiceNumber, INV_B.InvoiceID, INV_B.DateString>>, <<>>),
      Rec("found_attachment", <<FILE_P_Q>>, <<>>),
      Rec("downloaded", <<UniqueFileName(INV_B.InvoiceNumber, FILE_P_Q)>>, <<>>),
      Rec("processing", <<INV_X.InvoiceNumber, INV_X.InvoiceID, INV_X.DateString>>, <<>>),
      Rec("found_attachment", <<FILE_F>>, <<>>),
      Rec("downloaded", <<UniqueFileName(INV_X.InvoiceNumber, FILE_F)>>, <<>>),
      Rec("processed", <<>>, <<2>>),
      Rec("completed", <<>>, <<>>),
      Rec("starting", <<>>, <<>>),
      Rec("token_ok", <<>>, <<>>),
      Rec("tenant_ok", <<TENANT_ID>>, <<>>),
      Rec("contact_found", <<SUPPLIER_NAME, CONTACT_ID>>, <<>>),
      Rec("page", <<>>, <<1, 1, 1>>),
      Rec("found_invoices", <<SUPPLIER_NAME, START_DATE>>, <<1>>),
      Rec("processing", <<INV_S.InvoiceNumber, INV_S.InvoiceID, INV_S.DateString>>, <<>>),
      Rec("found_attachment", <<FILE_F>>, <<>>),
      Rec("error", <<ERR_TEXT>>, <<>>)>>

\* The file of the supplier folder: absent, or the log of that run.
LedgerFiles == {<<>>, LEDGER_BXS}

InitLedger ==
    /\ run = 1
    /\ logs \in {[d \in Dirs |-> IF d = supplier_folder THEN file ELSE <<>>] :
                    file \in LedgerFiles}
    /\ disk = [f \in LocalNames |-> "none"]
    /\ logStart = 0
    /\ Fresh

SkipSpec == InitLedger /\ [][Next]_vars

(***************************************************************************)
(* What the log and the request history say about the runs.                *)
(***************************************************************************)
LogFile == logs[LOG_DIR]

\* Records logged by earlier runs, and by the current run.
PriorLog == SubSeq(LogFile, 1, logStart)
RunLog == SubSeq(LogFile, logStart + 1, Len(LogFile))

\* Invoice IDs of the 'Processing invoice' records of a log.
ProcessingIds(log) == {r.s[2] : r \in {q \in Range(log) : q.k = "processing"}}

\* File names of the 'Downloaded attachment' records of a log.
DownloadedNames(log) == {r.s[1] : r \in {q \in Range(log) : q.k = "downloaded"}}

\* The invoice number the server holds for an invoice ID.
NumberOf(inv_id) == (CHOOSE inv \in Invoices : inv.InvoiceID = inv_id).InvoiceNumber

\* Local file names the run has issued a download request for.
RequestedNames ==
    {UniqueFileName(NumberOf(r.inv), r.file) :
        r \in {q \in Range(reqs) : q.kind = "download"}}

\* Invoice IDs the run has issued an attachment-list or download request for.
RequestedInvoices ==
    {r.inv : r \in {q \in Range(reqs) : q.kind \in {"attachments", "download"}}}

AllAnswered200 == \A k \in 1..Len(reqs) : reqs[k].status = STATUS_OK

\* An earlier run was interrupted inside the download loop: it logged a
\* 'Processing invoice' line and never reached the end of main nor an error.
PriorRunInterruptedInLoop ==
    /\ \E r \in Range(PriorLog) : r.k = "processing"
    /\ \A r \in Range(PriorLog) : r.k \notin {"processed", "error"}

(***************************************************************************)
(* C1.  Once some run has logged 'Downloaded attachment: F', no later run  *)
(* issues a download request for F or writes the file F again.             *)
(***************************************************************************)
C1_NoRedownload ==
    \A F \in DownloadedNames(PriorLog) :
        /\ F \notin RequestedNames
        /\ F \notin Range(writes)

(***************************************************************************)
(* C2.  Once the ledgers are loaded, processed_invoices holds every        *)
(* invoice ID for which an earlier run logged 'Processing invoice', and    *)
(* the run issues no attachment-list or download request for any of them.  *)
(***************************************************************************)
C2_LedgerIsPriorLog ==
    pc \in InLoop \cup {"done"} =>
        /\ ProcessingIds(PriorLog) \subseteq processed_invoices
        /\ ProcessingIds(PriorLog) \cap RequestedInvoices = {}

C4_AnyFailureTerminates ==
    \A k \in 1..Len(reqs) :
        reqs[k].status # STATUS_OK => (k = Len(reqs) /\ pc = "exit1")

FatalKinds == {"token", "connections", "contacts", "invoices"}
LoopKinds == {"attachments", "download"}

\* The step issues a request, and the request is answered with a non-200.
FailedRequestStep ==
    /\ Len(reqs') = Len(reqs) + 1
    /\ reqs'[Len(reqs')].status # STATUS_OK

(***************************************************************************)
(* C4, amended.  A non-200 answer to the token, connections, contact or    *)
(* invoice page request ends the run with exit status 1; a non-200 answer  *)
(* to an attachment-list or download request does not: the run moves on to *)
(* the next invoice or attachment.  No request follows an exit, and no     *)
(* failed request is issued again for the same loop position.              *)
(***************************************************************************)
C4_FailureHandling ==
    [][/\ FailedRequestStep =>
            IF reqs'[Len(reqs')].kind \in FatalKinds
            THEN pc' = "exit1"
            ELSE /\ pc' \in {"loop", "download"}
                 /\ <<idx', aidx'>> # <<idx, aidx>>
       /\ pc = "exit1" => reqs' = <<>>]_vars

\* Both kinds of failure have happened: a run went on after a failed
\* attachment-list request and a failed download, and a later request of
\* the run was answered.
C4_Witness ==
    /\ \E k \in 1..Len(reqs) : reqs[k].kind = "attachments" /\ reqs[k].status # STATUS_OK
    /\ \E k \in 1..Len(reqs) : reqs[k].kind = "download" /\ reqs[k].status # STATUS_OK
    /\ reqs[Len(reqs)].status = STATUS_OK
    /\ \E r \in Range(PriorLog) : r.k = "invoices_fail"
    /\ pc = "done"

(***************************************************************************)
(* C5.  get_invoices_for_contact requests the pages 1, 2, 3, ... in order, *)
(* each once and with the same filter, stops at the first empty page and   *)
(* returns the concatenation, in page order, of the pages before it.       *)
(***************************************************************************)
PageReqs == SelectSeq(reqs, LAMBDA r : r.kind = "invoices")

C5_Pagination ==
    LET pr == PageReqs
        n == Len(pr)
    IN  /\ \A k \in 1..n : pr[k].page = k /\ pr[k].where = <<contact_id, START_DATE>>
        /\ \A k \in 1..(n - 1) : pr[k].status = STATUS_OK /\ pageResps[k] # <<>>
        /\ pc = "pages" =>
            /\ Len(pageResps) = n
            /\ \A k \in 1..n : pageResps[k] # <<>>
            /\ invoices = Concat(pageResps)
        /\ pc \in {"load", "done"} \cup InLoop =>
            /\ n >= 1
            /\ Len(pageResps) = n
            /\ pageResps[n] = <<>>
            /\ invoices = Concat(SubSeq(pageResps, 1, n - 1))

\* The enumeration has returned after two different non-empty pages.
C5_Witness ==
    /\ pc = "load"
    /\ Len(pageResps) = 3
    /\ pageResps[1] # pageResps[2]
    /\ Len(invoices) >= 2

(***************************************************************************)
(* C6.  A run issues one token request, then one connections request, then *)
(* one contact lookup, then the invoice page requests, and attachment-list *)
(* or download requests only once the enumeration has ended with an empty  *)
(* page.  A run that exits with status 1 on the token, tenant, contact or  *)
(* invoice page step has opened no attachment file and has logged no       *)
(* 'Processing invoice' line.                                              *)
(***************************************************************************)
C6_PhaseOrder ==
    LET n == Len(reqs)
    IN  /\ \A k \in 1..n :
            /\ (k = 1) <=> (reqs[k].kind = "token")
            /\ (k = 2) <=> (reqs[k].kind = "connections")
            /\ (k = 3) <=> (reqs[k].kind = "contacts")
            /\ k < n /\ reqs[k].kind \in FatalKinds => reqs[k].status = STATUS_OK
            /\ reqs[k].kind \in LoopKinds =>
                  \A j \in k..n : reqs[j].kind \in LoopKinds
        /\ (\E k \in 1..n : reqs[k].kind \in LoopKinds) =>
            /\ pageResps # <<>>
            /\ pageResps[Len(pageResps)] = <<>>
            /\ \A k \in 1..n : reqs[k].kind \in FatalKinds => reqs[k].status = STATUS_OK
        /\ (pc = "exit1" /\ n > 0 /\ reqs[n].kind \in FatalKinds) =>
            /\ writes = <<>>
            /\ \A r \in Range(RunLog) : r.k \notin {"processing", "downloaded"}
            /\ \A k \in 1..n : reqs[k].kind \notin LoopKinds

\* A run has exited on a failed invoice page after a page with invoices had
\* been fetched.
C6_Witness ==
    /\ pc = "exit1"
    /\ reqs # <<>>
    /\ reqs[Len(reqs)].kind = "invoices"
    /\ reqs[Len(reqs)].status # STATUS_OK
    /\ invoices # <<>>

(***************************************************************************)
(* C8.  Within one run no local file is opened for writing more than once: *)
(* a second attachment entry with the same local file name is skipped.     *)
(***************************************************************************)
C8_NoDuplicateWrites ==
    \A i \in 1..Len(writes) : \A j \in 1..Len(writes) :
        i # j => writes[i] # writes[j]

(***************************************************************************)
(* C9.  Read back from the log the program wrote, load_processed_invoices  *)
(* yields exactly the invoice IDs of the 'Processing invoice' lines and    *)
(* load_downloaded_attachments exactly the file names of the 'Downloaded   *)
(* attachment' lines.                                                      *)
(***************************************************************************)
C9_RoundTrip ==
    /\ load_processed_invoices(LogFile) = ProcessingIds(LogFile)
    /\ load_downloaded_attachments(LogFile) = DownloadedNames(LogFile)

(***************************************************************************)
(* C10.  At the end of a run the invoices it logged 'Processing invoice'   *)
(* for are the invoices it counted in 'Processed N new invoices'.          *)
(***************************************************************************)
C10_LedgerMatchesCount ==
    pc = "done" => ProcessingIds(RunLog) = counted

(***************************************************************************)
(* C7.  Every run terminates.  The rank of a run is the tuple (phase,      *)
(* pages left, invoices left, step within the invoice, attachments left,   *)
(* step within the attachment), ordered lexicographically.                 *)
(***************************************************************************)
PhaseRank ==
    CASE pc = "token" -> 6
      [] pc = "tenant" -> 5
      [] pc = "contact" -> 4
      [] pc = "pages" -> 3
      [] pc = "load" -> 2
      [] pc \in InLoop -> 1
      [] OTHER -> 0

Rank ==
    <<PhaseRank,
      IF pc = "pages" THEN MaxPages + 1 - page ELSE 0,
      IF pc \in InLoop THEN Len(invoices) + 1 - idx ELSE 0,
      CASE pc = "loop" -> 2 [] pc = "attachments" -> 1 [] OTHER -> 0,
      IF pc \in {"download", "write"} THEN Len(attachments) - aidx ELSE 0,
      IF pc = "download" THEN 1 ELSE 0>>

LexLess(a, b) ==
    \E k \in 1..Len(a) : a[k] < b[k] /\ \A j \in 1..(k - 1) : a[j] = b[j]

CountKinds(log, kinds) == Len(SelectSeq(log, LAMBDA r : r.k \in kinds))

RECURSIVE ListedAttachments(_)
ListedAttachments(rs) ==
    IF rs = <<>> THEN 0
    ELSE (IF Head(rs).kind = "attachments" /\ Head(rs).status = STATUS_OK
          THEN Len(AttachmentsOf(Head(rs).inv)) ELSE 0)
         + ListedAttachments(Tail(rs))

\* A run that is not killed ends: every step of the script lowers the rank,
\* no rank component is ever negative, and a run that reaches its end has
\* visited each enumerated invoice once and each listed attachment once.
C7_Terminates ==
    /\ [](pc \in Running => <>(pc \in Ended))
    /\ [][Step => LexLess(Rank', Rank)]_vars
    /\ [](\A k \in 1..Len(Rank) : Rank[k] >= 0)
    /\ [](pc = "done" =>
            /\ CountKinds(RunLog, {"processing", "skipped_invoice"}) = Len(invoices)
            /\ CountKinds(RunLog, {"found_attachment"}) = ListedAttachments(reqs))

\* A run has ended normally after the longest enumeration, having gone
\* through invoices with and without attachments and through a failed
\* request.
C7_Witness ==
    /\ pc = "done"
    /\ Len(pageResps) = MaxPages + 1
    /\ Len(invoices) >= 2
    /\ CountKinds(RunLog, {"found_attachment"}) >= 2
    /\ ~AllAnswered200

(***************************************************************************)
(* C11.  A 'Downloaded attachment: F' line is appended only after the last *)
(* request of the run, a download answered 200 for an attachment with      *)
(* local name F, and with the file F completely written; a download        *)
(* answered with a non-200 status touches no file and appends no           *)
(* 'Downloaded attachment' line.                                           *)
(***************************************************************************)
\* The records a step appends to the log.
NewRecords == SubSeq(logs'[LOG_DIR], Len(LogFile) + 1, Len(logs'[LOG_DIR]))

C11_LedgerRecordsCompletedDownloads ==
    [][/\ \A r \in Range(NewRecords) :
            r.k = "downloaded" =>
                /\ disk'[r.s[1]] = "full"
                /\ reqs # <<>>
                /\ reqs[Len(reqs)].kind = "download"
                /\ reqs[Len(reqs)].status = STATUS_OK
                /\ UniqueFileName(NumberOf(reqs[Len(reqs)].inv),
                                  reqs[Len(reqs)].file) = r.s[1]
       /\ (FailedRequestStep /\ reqs'[Len(reqs')].kind = "download") =>
            /\ disk' = disk
            /\ writes' = writes
            /\ \A r \in Range(NewRecords) : r.k # "downloaded"]_vars

\* A run has had one download answered with an error and another one
\* completed and recorded.
C11_Witness ==
    /\ \E k \in 1..Len(reqs) : reqs[k].kind = "download" /\ reqs[k].status # STATUS_OK
    /\ \E F \in DownloadedNames(RunLog) : disk[F] = "full"

\* The last 'Processing invoice' record before position k of a log, 0 if
\* there is none.
OwnerOf(log, k) ==
    LET js == {j \in 1..(k - 1) : log[j].k = "processing"}
    IN  IF js = {} THEN 0 ELSE CHOOSE j \in js : \A h \in js : h <= j

\* The file the loaders read.
LedgerFile == logs[cwd]

\* download_invoice_attachment is about to skip the current attachment.
AttachmentSkipDue ==
    /\ pc = "download"
    /\ UniqueFileName(invoices[idx].InvoiceNumber, attachments[aidx]) \in downloaded_set

(***************************************************************************)
(* C12.  Within a run every 'Downloaded attachment' line follows the run's *)
(* 'Processing invoice' line of the invoice the attachment belongs to.     *)
(* Hence every name of the loaded downloaded set comes from a line whose   *)
(* invoice is in the loaded processed set, and when the attachment-level   *)
(* skip is about to fire, the current invoice is not in the processed set  *)
(* and the name was recorded for a different invoice.                      *)
(***************************************************************************)
C12_LogOrdering ==
    /\ \A k \in 1..Len(RunLog) :
          RunLog[k].k = "downloaded" =>
              LET j == OwnerOf(RunLog, k)
              IN  /\ j # 0
                  /\ \E f \in Range(AttachmentsOf(RunLog[j].s[2])) :
                        RunLog[k].s[1] = UniqueFileName(RunLog[j].s[1], f)
    /\ pc \in InLoop \cup {"done"} =>
          \A F \in downloaded_set :
              \E k \in 1..Len(LedgerFile) :
                  /\ LedgerFile[k].k = "downloaded"
                  /\ LedgerFile[k].s[1] = F
                  /\ OwnerOf(LedgerFile, k) # 0
                  /\ LedgerFile[OwnerOf(LedgerFile, k)].s[2] \in processed_invoices
    /\ AttachmentSkipDue =>
          /\ invoices[idx].InvoiceID \notin processed_invoices
          /\ \E k \in 1..Len(LedgerFile) :
                /\ LedgerFile[k].k = "downloaded"
                /\ LedgerFile[k].s[1] =
                      UniqueFileName(invoices[idx].InvoiceNumber, attachments[aidx])
                /\ OwnerOf(LedgerFile, k) # 0
                /\ LedgerFile[OwnerOf(LedgerFile, k)].s[2] # invoices[idx].InvoiceID

\* The two sets the loaders derive from the file 'xero_download.log' of
\* each directory.
LedgersOf(files) ==
    [d \in Dirs |-> <<load_processed_invoices(files[d]),
                      load_downloaded_attachments(files[d])>>]

\* The step logs a record of one of the kinds.
Logs(kinds) == \E r \in Range(NewRecords) : r.k \in kinds

(***************************************************************************)
(* C13.  A step that skips an already processed invoice logs the 'Skipped  *)
(* invoice' line and nothing else: it issues no request, writes no file    *)
(* and leaves the counter of processed invoices alone.  A step that skips  *)
(* an already downloaded attachment issues no request and writes no file.  *)
(* Neither changes the sets the loaders derive from the log files, nor the *)
(* sets the run has loaded.                                                *)
(***************************************************************************)
C13_SkipFrame ==
    [][/\ Logs({"skipped_invoice"}) =>
            /\ NewRecords = <<Rec("skipped_invoice",
                                  <<invoices[idx].InvoiceNumber, invoices[idx].InvoiceID>>,
                                  <<>>)>>
            /\ reqs' = reqs
            /\ disk' = disk
            /\ writes' = writes
            /\ new_invoices_processed' = new_invoices_processed
            /\ counted' = counted
            /\ LedgersOf(logs') = LedgersOf(logs)
            /\ processed_invoices' = processed_invoices
            /\ downloaded_set' = downloaded_set
       /\ Logs({"skipped"}) =>
            /\ \A r \in Range(NewRecords) : r.k \in {"found_attachment", "skipped"}
            /\ reqs' = reqs
            /\ disk' = disk
            /\ writes' = writes
            /\ LedgersOf(logs') = LedgersOf(logs)
            /\ processed_invoices' = processed_invoices
            /\ downloaded_set' = downloaded_set]_vars

\* A run has skipped an invoice and has skipped an attachment of another
\* invoice.
C13_Witness ==
    /\ \E r \in Range(RunLog) : r.k = "skipped_invoice"
    /\ \E r \in Range(RunLog) : r.k = "skipped"

=============================================================================
